---- MODULE Spec2Model ----
(***************************************************************************)
(* Model of archlinux-inputs-fsck.                                         *)
(*                                                                         *)
(*   Spec     the concurrent scan scheduler, Scan::run (src/args.rs)       *)
(*   SpecPkg  the recipe scanner, fsck::check_pkg (src/fsck.rs), with the  *)
(*            source parsers of src/makepkg.rs and src/git.rs              *)
(*   SpecPins the same, over recipes with many kinds of source             *)
(*   SpecVariants the same, over recipes with every variant of source and  *)
(*            checksum arrays                                              *)
(*   SpecSrc  one source line through the classifier of check_pkg          *)
(*   SpecAudit one scan result through Finding::audit_list and the report  *)
(*                                                                         *)
(* Rust strings are TLA+ strings; str methods are modelled on characters.  *)
(***************************************************************************)
EXTENDS Integers, Sequences, FiniteSets, Bags, TLC

VARIABLES
    \* ---- Scan::run ----
    check,      \* the Check options the run was started with
    dirs,       \* history: how read_dir ended for each scan directory so far
    nextId,     \* identity given to the next target pushed on the queue
    queue,      \* VecDeque<Target>
    pool,       \* JoinSet: spawned tasks that have not been joined
    pc,         \* position of the coordinator in Scan::run
    result,     \* return value of Scan::run
    spawned,    \* history: the targets handed to pool.spawn, in order
    reported,   \* history: the bag of results routed to the aggregator
    joinError,  \* history: the target of the task whose join failed, if any
    \* ---- fsck::check_pkg ----
    recipe,     \* the arguments of check_pkg and the source= lines of the recipe
    ppc,        \* position inside check_pkg
    sources,    \* Vec<AuthedSource>
    findings,   \* Vec<Finding>
    sumsSeen,   \* history: the list list_variable returned, per algorithm
    outcome,    \* what check_pkg did: "none", "ok", "err" or "panic"
    \* ---- one source line through the classifier ----
    srcInput,   \* a line of the source= array
    srcParsed,  \* None, then Some(the classified source and its scheme findings)
    \* ---- one scan result through the aggregator ----
    auditInput, \* the result of a scan, the filters and the report flag
    auditOut    \* None, then Some(what audit_list returned and what was printed)

runVars == <<check, dirs, nextId, queue, pool, pc, result, spawned,
             reported, joinError>>
pkgVars == <<recipe, ppc, sources, findings, sumsSeen, outcome>>
srcVars == <<srcInput, srcParsed>>
auditVars == <<auditInput, auditOut>>
vars == <<runVars, pkgVars, srcVars, auditVars>>

\* Option<T>: None is the empty tuple, Some(x) the tuple of x
NoneVal == <<>>

Some(x) == <<x>>

(***************************************************************************)
(* Bounds                                                                  *)
(***************************************************************************)
\* scan directories on the command line
MaxDirs == 1
\* entries found in one scan directory
MaxEntries == 1
\* package names given with -B
MaxPkgs == 0
\* explicit paths
MaxPaths == 1
\* largest explicit -j value
MaxJobs == 1
\* num_cpus::get()
MaxCpus == 1
\* source= lines of a recipe with checksum arrays
MaxSources == 2
\* values in one checksum array of a recipe
MaxSums == 1
\* checksum arrays of a recipe that are not empty
MaxDeclared == 2
\* source= lines of a recipe without checksum arrays
MaxPinSources == 2
\* source= lines of a recipe with sources of every variant
MaxVariantSources == 2
\* findings in the list of one scan result
MaxAudit == 2
\* names given with --filter
MaxFilters == 1

(***************************************************************************)
(* Helpers on sequences                                                    *)
(***************************************************************************)
Range(s) == {s[i] : i \in 1..Len(s)}

Count(s, x) == Cardinality({i \in 1..Len(s) : s[i] = x})

(***************************************************************************)
(* Scan::run                                                               *)
(***************************************************************************)
BuildPath(id) == [id |-> id, kind |-> "BuildPath"]

ArchBuildSystem(id) == [id |-> id, kind |-> "ArchBuildSystem"]

\* n targets made by mk, numbered from first
Targets(kind, first, n) ==
    [i \in 1..n |-> IF kind = "BuildPath" THEN BuildPath(first + i - 1)
                    ELSE ArchBuildSystem(first + i - 1)]

CheckOptions ==
    [scan_directory : 0..MaxDirs,
     arch_build_system : 0..MaxPkgs,
     paths : 0..MaxPaths,
     concurrency : {NoneVal} \cup {Some(j) : j \in 0..MaxJobs},
     num_cpus : 1..MaxCpus]

\* check.concurrency.unwrap_or_else(|| num_cpus::get() * 2)
Concurrency ==
    IF check.concurrency = NoneVal THEN check.num_cpus * 2
    ELSE check.concurrency[1]

\* every target pushed on the queue so far
Enqueued == 1..(nextId - 1)

InitRun ==
    /\ check \in CheckOptions
    /\ dirs = <<>>
    /\ nextId = 1
    /\ queue = <<>>
    /\ pool = {}
    /\ pc = "dirs"
    /\ result = "running"
    /\ spawned = <<>>
    /\ reported = EmptyBag
    /\ joinError = NoneVal

\* read_pkgs_from_dir for the next scan directory pushes a target per entry
ReadDirOk ==
    /\ pc = "dirs"
    /\ Len(dirs) < check.scan_directory
    /\ \E n \in 0..MaxEntries :
        /\ queue' = queue \o Targets("BuildPath", nextId, n)
        /\ nextId' = nextId + n
    /\ dirs' = Append(dirs, "ok")
    /\ UNCHANGED <<check, pool, pc, result, spawned, reported, joinError,
                   pkgVars, srcVars,
                   auditVars>>

\* read_pkgs_from_dir fails and the `?` returns the error from run
ReadDirFail ==
    /\ pc = "dirs"
    /\ Len(dirs) < check.scan_directory
    /\ dirs' = Append(dirs, "failed")
    /\ pc' = "done"
    /\ result' = "err"
    /\ UNCHANGED <<check, nextId, queue, pool, spawned, reported, joinError,
                   pkgVars, srcVars,
                   auditVars>>

\* the two push_back loops over arch_build_system and paths
PushTargets ==
    /\ pc = "dirs"
    /\ Len(dirs) = check.scan_directory
    /\ queue' = queue
                \o Targets("ArchBuildSystem", nextId, check.arch_build_system)
                \o Targets("BuildPath", nextId + check.arch_build_system,
                           check.paths)
    /\ nextId' = nextId + check.arch_build_system + check.paths
    /\ pc' = "topup"
    /\ UNCHANGED <<check, dirs, pool, result, spawned, reported, joinError,
                   pkgVars, srcVars,
                   auditVars>>

\* mutant: the pool is topped up while pool.len() <= concurrency
PoolHasRoom_OffByOne == Cardinality(pool) <= Concurrency

\* while pool.len() < concurrency
PoolHasRoom == Cardinality(pool) < Concurrency

\* one iteration of the inner loop that pops a target and spawns its task
Spawn ==
    /\ pc = "topup"
    /\ PoolHasRoom
    /\ queue # <<>>
    /\ pool' = pool \cup {[target |-> Head(queue), state |-> "running"]}
    /\ spawned' = Append(spawned, Head(queue))
    /\ queue' = Tail(queue)
    /\ UNCHANGED <<check, dirs, nextId, pc, result, reported, joinError,
                   pkgVars, srcVars,
                   auditVars>>

\* mutant: the coordinator may go and wait before the pool is topped up
TopUpDone_Early ==
    /\ pc = "topup"
    /\ pc' = "join"
    /\ UNCHANGED <<check, dirs, nextId, queue, pool, result, spawned,
                   reported, joinError, pkgVars, srcVars, auditVars>>

\* the inner loop ends: the pool is full, or the queue is empty (break)
TopUpDone ==
    /\ pc = "topup"
    /\ ~PoolHasRoom \/ queue = <<>>
    /\ pc' = "join"
    /\ UNCHANGED <<check, dirs, nextId, queue, pool, result, spawned,
                   reported, joinError, pkgVars, srcVars,
                   auditVars>>

\* a spawned task runs check.scan(&target) to its end: Ok(findings), Err(err),
\* or a panic inside the task
TaskFinish ==
    /\ pc \in {"topup", "join"}
    /\ \E t \in pool :
        /\ t.state = "running"
        /\ \E o \in {"ok", "err", "panic"} :
            pool' = (pool \ {t}) \cup {[t EXCEPT !.state = o]}
    /\ UNCHANGED <<check, dirs, nextId, queue, pc, result, spawned,
                   reported, joinError, pkgVars, srcVars,
                   auditVars>>

\* mutant: an Err(err) result is returned from run like a join error
HandleResult_ErrAborts(t) ==
    /\ reported' = reported (+) SetToBag({t})
    /\ pool' = IF t.state = "err" THEN {} ELSE pool \ {t}
    /\ pc' = IF t.state = "err" THEN "done" ELSE "topup"
    /\ result' = IF t.state = "err" THEN "err" ELSE result
    /\ UNCHANGED joinError

\* Ok(findings) => audit_list, Err(err) => error!(..): the loop goes on
HandleResult(t) ==
    /\ reported' = reported (+) SetToBag({t})
    /\ pool' = pool \ {t}
    /\ pc' = "topup"
    /\ UNCHANGED <<result, joinError>>

\* mutant: a join error is logged like a scan error and the loop goes on
HandleJoinError_Swallowed(t) ==
    /\ joinError' = Some(t.target)
    /\ pool' = pool \ {t}
    /\ pc' = "topup"
    /\ UNCHANGED <<result, reported>>

\* join.context("Failed to join task")? returns the error from run; the
\* JoinSet is dropped, which aborts the tasks still in it
HandleJoinError(t) ==
    /\ joinError' = Some(t.target)
    /\ pool' = {}
    /\ pc' = "done"
    /\ result' = "err"
    /\ UNCHANGED reported

\* pool.join_next().await yields a finished task
JoinNext ==
    /\ pc = "join"
    /\ \E t \in pool :
        /\ t.state # "running"
        /\ IF t.state = "panic" THEN HandleJoinError(t) ELSE HandleResult(t)
    /\ UNCHANGED <<check, dirs, nextId, queue, spawned, pkgVars, srcVars,
                   auditVars>>

\* pool.join_next() yields None: break, Ok(())
PoolEmpty ==
    /\ pc = "join"
    /\ pool = {}
    /\ pc' = "done"
    /\ result' = "ok"
    /\ UNCHANGED <<check, dirs, nextId, queue, pool, spawned, reported,
                   joinError, pkgVars, srcVars,
                   auditVars>>

NextRun ==
    \/ ReadDirOk
    \/ ReadDirFail
    \/ PushTargets
    \/ Spawn
    \/ TopUpDone
    \/ TaskFinish
    \/ JoinNext
    \/ PoolEmpty

(***************************************************************************)
(* Properties of Scan::run                                                 *)
(***************************************************************************)
\* the number of results of a kind ("ok", "err") routed to the aggregator for
\* the target id
ReportsOf(id, state) ==
    CopiesIn([target |-> BuildPath(id), state |-> state], reported)
    + CopiesIn([target |-> ArchBuildSystem(id), state |-> state], reported)

Reports(id) == ReportsOf(id, "ok") + ReportsOf(id, "err")

\* the number of tasks spawned for the target id
Spawns(id) == Cardinality({i \in 1..Len(spawned) : spawned[i].id = id})

\* the targets whose scan error was routed to the aggregator
Failed == {id \in Enqueued : ReportsOf(id, "err") > 0}

\* read_dir failed for a scan directory
QueueFailed == \E i \in 1..Len(dirs) : dirs[i] = "failed"

\* C1: the number of spawned tasks that are not yet joined never exceeds the
\* concurrency limit.
C1_PoolBounded == Cardinality(pool) <= Concurrency

\* C1 witness: the pool is full while a target waits in the queue
C1_Witness ==
    /\ Concurrency >= 1
    /\ Cardinality(pool) = Concurrency
    /\ queue # <<>>

\* C2 as claimed: when run returns Ok (every task finished, no join failed),
\* every queued target was handed to exactly one task and had exactly one
\* result routed to the aggregator, for any concurrency limit.
C2_EveryTargetScannedOnce ==
    (pc = "done" /\ result = "ok") =>
        \A id \in Enqueued : Spawns(id) = 1 /\ Reports(id) = 1

\* C3 as claimed: run returns Ok only with the queue and the pool empty,
\* whatever the concurrency option.
C3_OkOnlyWhenDrained ==
    (pc = "done" /\ result = "ok") => (queue = <<>> /\ pool = {})

\* C4: a scan error does not abort the run. Routing an Err result leaves the
\* run going, the queue and the other tasks untouched; and a run in which a
\* scan failed and no join failed ends Ok with one result per queued target.
C4_ScanErrorIsolated ==
    /\ [][\A t \in pool :
            (t.state = "err" /\ reported' = reported (+) SetToBag({t})) =>
                /\ pc' = "topup"
                /\ result' = "running"
                /\ queue' = queue
                /\ pool' = pool \ {t}]_vars
    /\ []((pc = "done" /\ Failed # {} /\ joinError = NoneVal) =>
            /\ result = "ok"
            /\ \A id \in Enqueued : Reports(id) = 1)

\* C4 witness: a finished run in which one scan failed and another succeeded
C4_Witness ==
    /\ pc = "done"
    /\ result = "ok"
    /\ Failed # {}
    /\ Failed # Enqueued

\* C5: run returns an error exactly when read_dir failed for a scan directory
\* or a join failed; a join failure ends the run at once, and nothing is
\* spawned or reported after the run has ended.
C5_ErrorIffFatal ==
    /\ [](pc = "done" =>
            /\ result \in {"ok", "err"}
            /\ result = "err" <=> (QueueFailed \/ joinError # NoneVal))
    /\ [](pc # "done" => (result = "running" /\ ~QueueFailed
                          /\ joinError = NoneVal))
    /\ [][joinError' # NoneVal => pc' = "done"]_vars
    /\ [][pc = "done" => (spawned' = spawned /\ reported' = reported)]_vars

\* C5 witness: the run ended on a join failure with a target still queued
C5_Witness ==
    /\ pc = "done"
    /\ result = "err"
    /\ joinError # NoneVal
    /\ queue # <<>>

\* C18: whenever the coordinator waits in join_next, the pool is full or the
\* queue is empty; every spawn takes the target at the front of the queue,
\* so the targets are spawned in the order they were queued.
C18_ToppedUpBeforeWaiting ==
    /\ [](pc = "join" => (Cardinality(pool) = Concurrency \/ queue = <<>>))
    /\ [][spawned' # spawned =>
            /\ queue # <<>>
            /\ spawned' = Append(spawned, Head(queue))
            /\ queue' = Tail(queue)]_vars
    /\ [](\A i \in 1..Len(spawned) : spawned[i].id = i)

\* C18 witness: the coordinator waits a second time, with a full pool, the
\* two queued targets spawned one after the other
C18_Witness ==
    /\ pc = "join"
    /\ Len(spawned) = 2
    /\ Cardinality(pool) = Concurrency
    /\ BagCardinality(reported) = 1

(***************************************************************************)
(* str methods                                                             *)
(***************************************************************************)
Min(S) == CHOOSE x \in S : \A y \in S : x <= y

Max(S) == CHOOSE x \in S : \A y \in S : x >= y

\* the positions at which pat occurs in s
Occurrences(s, pat) ==
    {i \in 1..(Len(s) - Len(pat) + 1) : SubSeq(s, i, i + Len(pat) - 1) = pat}

\* the two sides of the occurrence of pat at position i
SplitAt(s, pat, i) == <<SubSeq(s, 1, i - 1), SubSeq(s, i + Len(pat), Len(s))>>

\* str::split_once: the pair split at the first occurrence, or None
SplitOnce(s, pat) ==
    IF Occurrences(s, pat) = {} THEN NoneVal
    ELSE SplitAt(s, pat, Min(Occurrences(s, pat)))

\* str::rsplit_once: the pair split at the last occurrence, or None
RSplitOnce(s, pat) ==
    IF Occurrences(s, pat) = {} THEN NoneVal
    ELSE SplitAt(s, pat, Max(Occurrences(s, pat)))

StartsWith(s, pat) ==
    Len(pat) <= Len(s) /\ SubSeq(s, 1, Len(pat)) = pat

EndsWith(s, pat) ==
    Len(pat) <= Len(s) /\ SubSeq(s, Len(s) - Len(pat) + 1, Len(s)) = pat

\* str::strip_suffix
StripSuffix(s, pat) ==
    IF EndsWith(s, pat) THEN Some(SubSeq(s, 1, Len(s) - Len(pat))) ELSE NoneVal

\* matches!(c, '0'..='9' | 'a'..='f')
HexDigits ==
    {"0", "1", "2", "3", "4", "5", "6", "7", "8", "9",
     "a", "b", "c", "d", "e", "f"}

HashLen == 40

(***************************************************************************)
(* makepkg.rs                                                              *)
(***************************************************************************)
SUPPORTED_ALGS ==
    <<"sha256sums", "sha512sums", "sha224sums", "sha384sums", "b2sums",
      "md5sums", "sha1sums">>

\* the closure of list_sources: one line of the source= array to a Source
SourceOfLine(line) ==
    IF SplitOnce(line, "::") = NoneVal
    THEN [url |-> line, filename |-> NoneVal]
    ELSE [url |-> SplitOnce(line, "::")[2],
          filename |-> Some(SplitOnce(line, "::")[1])]

\* Source::scheme
Scheme(source) ==
    IF SplitOnce(source.url, "://") = NoneVal THEN NoneVal
    ELSE Some(SplitOnce(source.url, "://")[1])

(***************************************************************************)
(* git.rs, svn.rs, hg.rs, bzr.rs                                           *)
(***************************************************************************)
is_git_object_hash(name) ==
    /\ Len(name) = HashLen
    /\ \A i \in 1..Len(name) : SubSeq(name, i, i) \in HexDigits

\* GitSource::from_str
GitFromStr(s0) ==
    LET signed1 == StripSuffix(s0, "?signed") # NoneVal
        s1 == IF signed1 THEN StripSuffix(s0, "?signed")[1] ELSE s0
        c == RSplitOnce(s1, "#commit=")
        s2 == IF c = NoneVal THEN s1 ELSE c[1]
        t == RSplitOnce(s2, "#tag=")
        s3 == IF t = NoneVal THEN s2 ELSE t[1]
        signed2 == StripSuffix(s3, "?signed") # NoneVal
        s4 == IF signed2 THEN StripSuffix(s3, "?signed")[1] ELSE s3
    IN  [kind |-> "Git",
         url |-> s4,
         commit |-> IF c = NoneVal THEN NoneVal ELSE Some(c[2]),
         tag |-> IF t = NoneVal THEN NoneVal ELSE Some(t[2]),
         signed |-> signed1 \/ signed2]

\* GitSource::is_commit_securely_pinned
is_commit_securely_pinned(g) ==
    IF g.commit # NoneVal THEN is_git_object_hash(g.commit[1])
    ELSE IF g.tag # NoneVal THEN is_git_object_hash(g.tag[1])
    ELSE FALSE

\* SvnSource::from_str, HgSource::from_str, BzrSource::from_str
RevisionFromStr(kind, s) ==
    LET r == RSplitOnce(s, "#revision=")
    IN  [kind |-> kind,
         url |-> IF r = NoneVal THEN s ELSE r[1],
         revision |-> IF r = NoneVal THEN NoneVal ELSE Some(r[2])]

\* mutant: only the length of the revision is looked at
is_hg_object_hash_LenOnly(name) == Len(name) = HashLen

is_hg_object_hash(name) ==
    /\ Len(name) = HashLen
    /\ \A i \in 1..Len(name) : SubSeq(name, i, i) \in HexDigits

\* HgSource::is_revision_securely_pinned
is_revision_securely_pinned(h) ==
    IF h.revision # NoneVal THEN is_hg_object_hash(h.revision[1]) ELSE FALSE

(***************************************************************************)
(* fsck.rs: sources, checksums, findings                                   *)
(***************************************************************************)
\* AuthedSource::url
AuthedUrl(source) ==
    [kind |-> "Url", url |-> source.url, filename |-> source.filename,
     checksums |-> <<>>]

\* mutant: a source without a scheme is classified like a download
AuthedFile_AsUrl(source) ==
    [kind |-> "Url", url |-> source.url, filename |-> source.filename,
     checksums |-> <<>>]

AuthedFile(source) == [kind |-> "File", name |-> source.url]

SignatureExts == <<".sig", ".asc", ".sign">>

\* mutant: the extension is looked for in the URL, also where a filename is
\* declared
is_signature_file_UrlOnly(u) ==
    \E k \in 1..Len(SignatureExts) : EndsWith(u.url, SignatureExts[k])

\* UrlSource::is_signature_file
is_signature_file(u) ==
    LET filename == IF u.filename # NoneVal THEN u.filename[1] ELSE u.url
    IN  \E k \in 1..Len(SignatureExts) : EndsWith(filename, SignatureExts[k])

\* Checksum::new: the variant for a variable name, "" where it bails
ChecksumVariant(alg) ==
    CASE alg = "md5sums" -> "Md5"
      [] alg = "sha1sums" -> "Sha1"
      [] alg = "sha256sums" -> "Sha256"
      [] alg = "sha512sums" -> "Sha512"
      [] alg = "sha224sums" -> "Sha224"
      [] alg = "sha384sums" -> "Sha384"
      [] alg = "b2sums" -> "B2"
      [] OTHER -> ""

ChecksumNew(alg, value) == [variant |-> ChecksumVariant(alg), value |-> value]

\* mutant: a checksum of any algorithm counts as a secure pin
is_checksum_securely_pinned_AnyAlg(cm) == cm.variant # ""

\* Checksum::is_checksum_securely_pinned
is_checksum_securely_pinned(cm) ==
    CASE cm.variant = "Md5" -> FALSE
      [] cm.variant = "Sha1" -> FALSE
      [] cm.variant = "Sha256" -> TRUE
      [] cm.variant = "Sha512" -> TRUE
      [] cm.variant = "Sha224" -> TRUE
      [] cm.variant = "Sha384" -> TRUE
      [] cm.variant = "B2" -> TRUE

\* enum Finding, with the names strum gives the variants (kebab_case)
InsecureScheme(scheme, source) ==
    [name |-> "insecure-scheme", scheme |-> scheme, source |-> source]

UnknownScheme(scheme, source) ==
    [name |-> "unknown-scheme", scheme |-> scheme, source |-> source]

WrongNumberOfChecksums(n, alg, m) ==
    [name |-> "wrong-number-of-checksums", sources |-> n, alg |-> alg,
     sums |-> m]

PinFinding(name, source) == [name |-> name, source |-> source]

\* mutant: a scheme of the family that is not known is not reported
FamilyFinding_NoUnknown(scheme, source, insecure, secure) ==
    IF scheme \in insecure THEN <<InsecureScheme(scheme, source)>> ELSE <<>>

\* the scheme finding of a version-control family: its insecure schemes are
\* marked insecure, every other scheme but the secure one is marked unknown
FamilyFinding(scheme, source, insecure, secure) ==
    IF scheme \in insecure THEN <<InsecureScheme(scheme, source)>>
    ELSE IF scheme # secure THEN <<UnknownScheme(scheme, source)>>
    ELSE <<>>

\* the closure check_pkg maps over the sources: the classified source and the
\* findings it pushes
Classify(source) ==
    LET scheme == IF Scheme(source) = NoneVal THEN "" ELSE Scheme(source)[1]
    IN  CASE Scheme(source) = NoneVal ->
               [authed |-> AuthedFile(source), findings |-> <<>>]
          [] Scheme(source) # NoneVal /\ scheme \in {"https", "http", "ftp"} ->
               [authed |-> AuthedUrl(source), findings |-> <<>>]
          [] Scheme(source) # NoneVal /\ StartsWith(scheme, "git") ->
               [authed |-> GitFromStr(source.url),
                findings |-> FamilyFinding(scheme, source,
                                 {"git", "git+http", "git+git"}, "git+https")]
          [] Scheme(source) # NoneVal /\ StartsWith(scheme, "svn") ->
               [authed |-> RevisionFromStr("Svn", source.url),
                findings |-> FamilyFinding(scheme, source,
                                 {"svn", "svn+http"}, "svn+https")]
          [] Scheme(source) # NoneVal /\ StartsWith(scheme, "hg") ->
               [authed |-> RevisionFromStr("Hg", source.url),
                findings |-> FamilyFinding(scheme, source,
                                 {"hg+http"}, "hg+https")]
          [] Scheme(source) # NoneVal /\ StartsWith(scheme, "bzr") ->
               [authed |-> RevisionFromStr("Bzr", source.url),
                findings |-> FamilyFinding(scheme, source,
                                 {"bzr+http"}, "bzr+https")]
          [] OTHER ->
               [authed |-> AuthedUrl(source),
                findings |-> <<UnknownScheme(scheme, source)>>]

RECURSIVE SchemeFindings(_, _)
\* the findings pushed while the lines from index i on are classified
SchemeFindings(lines, i) ==
    IF i > Len(lines) THEN <<>>
    ELSE Classify(SourceOfLine(lines[i])).findings \o SchemeFindings(lines, i + 1)

ClassifyAll(lines) ==
    [i \in 1..Len(lines) |-> Classify(SourceOfLine(lines[i])).authed]

\* mutant: only an array shorter than the source list is reported
CountFinding_OnlyShort(n, alg, m) ==
    IF n > m THEN <<WrongNumberOfChecksums(n, alg, m)>> ELSE <<>>

\* if sources.len() != sums.len() { findings.push(WrongNumberOfChecksums) }
CountFinding(n, alg, m) ==
    IF n # m THEN <<WrongNumberOfChecksums(n, alg, m)>> ELSE <<>>

\* sources[i] is indexed for every value that is not SKIP: an index past the
\* last source panics
IndexPanics(srcs, sums) ==
    \E i \in 1..Len(sums) : sums[i] # "SKIP" /\ i > Len(srcs)

\* mutant: the value is attached to a source of any variant but File
Attach_AnyVariant(srcs, alg, sums) ==
    [i \in 1..Len(srcs) |->
        IF i <= Len(sums) /\ sums[i] # "SKIP" /\ srcs[i].kind # "File"
        THEN [kind |-> "Url", url |-> srcs[i].url, filename |-> NoneVal,
              checksums |-> <<ChecksumNew(alg, sums[i])>>]
        ELSE srcs[i]]

\* the inner loop over the values of one algorithm
Attach(srcs, alg, sums) ==
    [i \in 1..Len(srcs) |->
        IF i <= Len(sums) /\ sums[i] # "SKIP" /\ srcs[i].kind = "Url"
        THEN [srcs[i] EXCEPT !.checksums = Append(@, ChecksumNew(alg, sums[i]))]
        ELSE srcs[i]]

\* sources.iter().any(|source| ... source.is_commit_securely_pinned())
has_any_secure_git_sources(srcs) ==
    \E i \in 1..Len(srcs) :
        srcs[i].kind = "Git" /\ is_commit_securely_pinned(srcs[i])

\* !source.checksums.iter().any(|x| x.is_checksum_securely_pinned())
UrlUnpinned(u) ==
    ~\E k \in 1..Len(u.checksums) : is_checksum_securely_pinned(u.checksums[k])

\* mutant: every unpinned git source is flagged, whatever the other sources
GitFlagged_PerSource(g, hasAny) == ~is_commit_securely_pinned(g)

\* if !has_any_secure_git_sources && !source.is_commit_securely_pinned()
GitFlagged(g, hasAny) == ~hasAny /\ ~is_commit_securely_pinned(g)

\* mutant: an svn or bzr source with a revision counts as pinned
PolicyOne_RevisionPins(src, hasAny) ==
    CASE src.kind = "File" -> <<>>
      [] src.kind = "Url" ->
           IF is_signature_file(src) THEN <<>>
           ELSE IF UrlUnpinned(src)
                THEN <<PinFinding("url-artifact-insecure-pin", src)>>
                ELSE <<>>
      [] src.kind = "Git" ->
           IF GitFlagged(src, hasAny)
           THEN <<PinFinding("git-commit-insecure-pin", src)>>
           ELSE <<>>
      [] src.kind = "Svn" ->
           IF src.revision = NoneVal
           THEN <<PinFinding("svn-insecure-pin", src)>>
           ELSE <<>>
      [] src.kind = "Hg" ->
           IF ~is_revision_securely_pinned(src)
           THEN <<PinFinding("hg-revision-insecure-pin", src)>>
           ELSE <<>>
      [] src.kind = "Bzr" ->
           IF src.revision = NoneVal
           THEN <<PinFinding("bzr-insecure-pin", src)>>
           ELSE <<>>

\* one arm of the match over a classified source
PolicyOne(src, hasAny) ==
    CASE src.kind = "File" -> <<>>
      [] src.kind = "Url" ->
           IF is_signature_file(src) THEN <<>>
           ELSE IF UrlUnpinned(src)
                THEN <<PinFinding("url-artifact-insecure-pin", src)>>
                ELSE <<>>
      [] src.kind = "Git" ->
           IF GitFlagged(src, hasAny)
           THEN <<PinFinding("git-commit-insecure-pin", src)>>
           ELSE <<>>
      [] src.kind = "Svn" -> <<PinFinding("svn-insecure-pin", src)>>
      [] src.kind = "Hg" ->
           IF ~is_revision_securely_pinned(src)
           THEN <<PinFinding("hg-revision-insecure-pin", src)>>
           ELSE <<>>
      [] src.kind = "Bzr" -> <<PinFinding("bzr-insecure-pin", src)>>

RECURSIVE PinFindings(_, _, _)
\* the findings pushed by the loop over the sources from index i on
PinFindings(srcs, i, hasAny) ==
    IF i > Len(srcs) THEN <<>>
    ELSE PolicyOne(srcs[i], hasAny) \o PinFindings(srcs, i + 1, hasAny)

(***************************************************************************)
(* github.rs                                                               *)
(***************************************************************************)
\* what follows ^https://github.com/([^/]+)/([^/]+)/archive/ in url, or ""
\* where url does not start so
ArchiveTail(url) ==
    LET p == "https://github.com/"
        r1 == SubSeq(url, Len(p) + 1, Len(url))
        o == SplitOnce(r1, "/")
        n == IF o = NoneVal THEN NoneVal ELSE SplitOnce(o[2], "/")
    IN  IF /\ StartsWith(url, p)
           /\ o # NoneVal
           /\ n # NoneVal
           /\ o[1] # ""
           /\ n[1] # ""
           /\ StartsWith(n[2], "archive/")
        THEN SubSeq(n[2], Len("archive/") + 1, Len(n[2]))
        ELSE ""

\* detect_signed_tag_from_url(url).is_some(): one of the three patterns matches
\*   refs/tags/(.+).tar.gz$    (its dots match any character)
\*   (.+)/.+\.tar\.gz$
\*   (.+)\.tar\.gz$
detect_signed_tag_from_url(url) ==
    LET t == ArchiveTail(url)
        r == SubSeq(t, Len("refs/tags/") + 1, Len(t))
    IN  \/ /\ StartsWith(t, "refs/tags/")
           /\ Len(r) >= 8
           /\ SubSeq(r, Len(r) - 5, Len(r) - 3) = "tar"
           /\ SubSeq(r, Len(r) - 1, Len(r)) = "gz"
        \/ /\ EndsWith(t, ".tar.gz")
           /\ \E q \in Occurrences(t, "/") : q >= 2 /\ q <= Len(t) - 8
        \/ /\ EndsWith(t, ".tar.gz")
           /\ Len(t) >= 8

\* the sources for which discover-signatures mode calls fetch_tag
TagLookups(srcs) ==
    {i \in 1..Len(srcs) :
        /\ srcs[i].kind = "Url"
        /\ ~is_signature_file(srcs[i])
        /\ detect_signed_tag_from_url(srcs[i].url)}

(***************************************************************************)
(* check_pkg                                                               *)
(***************************************************************************)
Hash == "0123456789abcdef0123456789abcdef01234567"

\* the values of a checksum array
SumValues == {"SKIP", "00"}

SumLists == UNION {[1..n -> SumValues] : n \in 1..MaxSums}

\* the checksum arrays of a recipe in which exactly n are not empty, in the
\* order of SUPPORTED_ALGS
SumArrays(n) ==
    {[k \in 1..Len(SUPPORTED_ALGS) |-> IF k \in DOMAIN f THEN f[k] ELSE <<>>] :
        f \in UNION {[A -> SumLists] :
                A \in {B \in SUBSET (1..Len(SUPPORTED_ALGS)) :
                          Cardinality(B) = n}}}

RECURSIVE AlgLoop(_, _, _, _)
\* the loop over SUPPORTED_ALGS from the k-th algorithm on, arrays[k] being
\* what list_variable returns for it: the sources and findings it leaves,
\* whether it panicked, and the number of arrays it read
AlgLoop(srcs, fnds, arrays, k) ==
    IF k > Len(SUPPORTED_ALGS)
    THEN [sources |-> srcs, findings |-> fnds, panic |-> FALSE, read |-> k - 1]
    ELSE IF arrays[k] = <<>>
    THEN AlgLoop(srcs, fnds, arrays, k + 1)
    ELSE LET alg == SUPPORTED_ALGS[k]
             counted == fnds \o CountFinding(Len(srcs), alg, Len(arrays[k]))
         IN  IF IndexPanics(srcs, arrays[k])
             THEN [sources |-> srcs, findings |-> counted, panic |-> TRUE,
                   read |-> k]
             ELSE AlgLoop(Attach(srcs, alg, arrays[k]), counted, arrays, k + 1)

InitPkgVars ==
    /\ ppc = "start"
    /\ sources = <<>>
    /\ findings = <<>>
    /\ sumsSeen = <<>>
    /\ outcome = "none"

\* the working directory is resolved: an explicit path, or a checkout that
\* succeeded
Resolve ==
    /\ ppc = "start"
    /\ ppc' = "pkgbuild"
    /\ UNCHANGED <<recipe, sources, findings, sumsSeen, outcome, runVars,
                   srcVars,
                   auditVars>>

\* tempdir()? or asp::checkout_package(..)? fails for a target given by name
CheckoutFail ==
    /\ ppc = "start"
    /\ ppc' = "done"
    /\ outcome' = "err: checkout"
    /\ UNCHANGED <<recipe, sources, findings, sumsSeen, runVars, srcVars,
                   auditVars>>

\* mutant: the sources are listed before the PKGBUILD is looked for
MissingPkgbuild_AfterSources ==
    /\ ppc = "pkgbuild"
    /\ ~recipe.pkgbuild
    /\ sources' = ClassifyAll(recipe.source)
    /\ findings' = SchemeFindings(recipe.source, 1)
    /\ ppc' = "sums"
    /\ UNCHANGED <<recipe, sumsSeen, outcome, runVars, srcVars, auditVars>>

\* if !pkgbuild_path.exists() { bail!("Missing PKGBUILD") }
MissingPkgbuild ==
    /\ ppc = "pkgbuild"
    /\ ~recipe.pkgbuild
    /\ ppc' = "done"
    /\ outcome' = "err: Missing PKGBUILD"
    /\ UNCHANGED <<recipe, sources, findings, sumsSeen, runVars, srcVars,
                   auditVars>>

\* makepkg::list_sources and the map that classifies every source
ListSources ==
    /\ ppc = "pkgbuild"
    /\ recipe.pkgbuild
    /\ sources' = ClassifyAll(recipe.source)
    /\ findings' = SchemeFindings(recipe.source, 1)
    /\ ppc' = "sums"
    /\ UNCHANGED <<recipe, sumsSeen, outcome, runVars, srcVars,
                   auditVars>>

\* a call of list_variable (from list_sources, for a checksum array or for
\* validpgpkeys) fails and the `?` returns the error
ListVariableFail ==
    /\ \/ ppc = "pkgbuild" /\ recipe.pkgbuild
       \/ ppc \in {"sums", "policy"}
    /\ ppc' = "done"
    /\ outcome' = "err: list_variable"
    /\ UNCHANGED <<recipe, sources, findings, sumsSeen, runVars, srcVars,
                   auditVars>>

\* the loop over SUPPORTED_ALGS, with the arrays list_variable returns
Checksums ==
    /\ ppc = "sums"
    /\ \E arrays \in SumArrays(recipe.arrays) :
        \E r \in {AlgLoop(sources, findings, arrays, 1)} :
            /\ sumsSeen' = SubSeq(arrays, 1, r.read)
            /\ findings' = r.findings
            /\ sources' = r.sources
            /\ ppc' = IF r.panic THEN "done" ELSE "policy"
            /\ outcome' = IF r.panic THEN "panic" ELSE outcome
    /\ UNCHANGED <<recipe, runVars, srcVars,
                   auditVars>>

\* discover-signatures mode: github::fetch_tag(..).await? fails
FetchTagFail ==
    /\ ppc = "policy"
    /\ recipe.discover_sigs
    /\ TagLookups(sources) # {}
    /\ ppc' = "done"
    /\ outcome' = "err: fetch_tag"
    /\ UNCHANGED <<recipe, sources, findings, sumsSeen, runVars, srcVars,
                   auditVars>>

\* the loop over the classified sources, list_variable("validpgpkeys") and
\* Ok(findings)
Policy ==
    /\ ppc = "policy"
    /\ findings' = findings
           \o PinFindings(sources, 1, has_any_secure_git_sources(sources))
    /\ ppc' = "done"
    /\ outcome' = "ok"
    /\ UNCHANGED <<recipe, sources, sumsSeen, runVars, srcVars,
                   auditVars>>

\* check_pkg(target, false)
NextPkg ==
    \/ Resolve
    \/ CheckoutFail
    \/ MissingPkgbuild
    \/ ListSources
    \/ ListVariableFail
    \/ Checksums
    \/ Policy

\* check_pkg(target, discover_sigs)
NextPins ==
    \/ Resolve
    \/ CheckoutFail
    \/ MissingPkgbuild
    \/ ListSources
    \/ ListVariableFail
    \/ Checksums
    \/ FetchTagFail
    \/ Policy

\* recipes for the checksum pass, scanned without discover-signatures mode:
\* few kinds of source, every shape of checksum array
SumLines ==
    {"https://a/a.tar.gz",
     "https://a/a.tar.gz.sig",
     "a.tar.gz.asc::http://a/a",
     "a.patch"}

SumRecipes ==
    [pkgbuild : BOOLEAN,
     discover_sigs : {FALSE},
     source : UNION {[1..n -> SumLines] : n \in 0..MaxSources},
     arrays : 0..MaxDeclared]

InitPkg == recipe \in SumRecipes /\ InitPkgVars

\* recipes for the pin policy, scanned in either mode: every kind of source,
\* no checksum array
PinLines ==
    {"https://a/a.tar.gz",
     "https://a/a.tar.gz.sig",
     "a.asc::https://a/a",
     "a.tgz::http://a/a.sign",
     "https://github.com/o/n/archive/v1.tar.gz",
     "a.patch",
     "scp://a/a",
     "git+https://a/r#commit=" \o Hash,
     "git+https://a/r#tag=v1.0",
     "git://a/r#tag=" \o Hash \o "#commit=main",
     "svn+https://a/r#revision=7",
     "hg+https://a/r#revision=" \o Hash,
     "bzr+http://a/r",
     "ftp://a/a.tar.gz",
     "://a/a",
     "bzr+https://a/r#revision=7",
     "svn://a/r",
     "hg+https://a/r",
     "hg+https://a/r#revision=0123456789ABCDEF0123456789ABCDEF01234567",
     "hg+https://a/r#revision=" \o SubSeq(Hash, 1, HashLen - 1),
     "hg+https://a/r#revision=" \o Hash \o "8",
     "hg+https://a/r#revision=tip"}

PinRecipes ==
    [pkgbuild : BOOLEAN,
     discover_sigs : BOOLEAN,
     source : UNION {[1..n -> PinLines] : n \in 0..MaxPinSources},
     arrays : {0}]

InitPins == recipe \in PinRecipes /\ InitPkgVars

\* recipes for the checksum pass over the variants of classified source (Bzr
\* sources are parsed and kept like Svn sources)
VariantLines ==
    {"https://a/a.tar.gz",
     "a.patch",
     "git+https://a/r#tag=v1.0",
     "svn+https://a/r#revision=7",
     "hg+https://a/r"}

VariantRecipes ==
    [pkgbuild : BOOLEAN,
     discover_sigs : {FALSE},
     source : UNION {[1..n -> VariantLines] : n \in 0..MaxVariantSources},
     arrays : 0..MaxDeclared]

InitVariants == recipe \in VariantRecipes /\ InitPkgVars

(***************************************************************************)
(* Properties of check_pkg                                                 *)
(***************************************************************************)
\* the number of source= lines of the recipe
NumSources == Len(recipe.source)

\* the findings of one name
Named(name) == {i \in 1..Len(findings) : findings[i].name = name}

\* the checksum arrays read, by position in SUPPORTED_ALGS
Algs == 1..Len(sumsSeen)

\* C6 as claimed: for every algorithm with M values and N # M sources, the
\* returned list holds WrongNumberOfChecksums{N, algorithm, M}.
C6_EveryMismatchReported ==
    outcome = "ok" =>
        \A k \in Algs :
            Len(sumsSeen[k]) # NumSources =>
                Count(findings, WrongNumberOfChecksums(NumSources,
                          SUPPORTED_ALGS[k], Len(sumsSeen[k]))) >= 1

\* C6 amended: for every algorithm with M >= 1 values and N # M sources, the
\* returned list holds WrongNumberOfChecksums{N, algorithm, M}, once; it
\* holds no such finding for an algorithm with no value or with N values.
C6_DeclaredMismatchReported ==
    outcome = "ok" =>
        \A k \in Algs :
            LET m == Len(sumsSeen[k])
                wrong == {i \in Named("wrong-number-of-checksums") :
                             findings[i].alg = SUPPORTED_ALGS[k]}
            IN  IF m >= 1 /\ m # NumSources
                THEN /\ Cardinality(wrong) = 1
                     /\ \A i \in wrong :
                            findings[i].sources = NumSources
                            /\ findings[i].sums = m
                ELSE wrong = {}

\* C6 witness: a list is returned for a recipe with fewer values than sources
\* for one algorithm and more values than sources for none
C6_Witness ==
    /\ outcome = "ok"
    /\ \E k \in Algs :
        Len(sumsSeen[k]) >= 1 /\ Len(sumsSeen[k]) < NumSources

\* C7 as claimed: with a mismatch between the values of an algorithm and the
\* sources, and every collaborator succeeding, check_pkg returns a finding
\* list.
C7_MismatchNonFatal ==
    (/\ ppc = "done"
     /\ \E k \in Algs : sumsSeen[k] # <<>> /\ Len(sumsSeen[k]) # NumSources)
        => outcome \in {"ok", "err: list_variable", "err: fetch_tag"}

\* the git sources of the recipe, by index
GitSources == {i \in 1..Len(sources) : sources[i].kind = "Git"}

\* C8: when a list is returned, it holds no GitCommitInsecurePin if some git
\* source of the recipe is securely pinned (is_commit_securely_pinned), and
\* one GitCommitInsecurePin per git source if none is.
C8_RecipeWideGitExemption ==
    outcome = "ok" =>
        IF \E i \in GitSources : is_commit_securely_pinned(sources[i])
        THEN Named("git-commit-insecure-pin") = {}
        ELSE /\ Cardinality(Named("git-commit-insecure-pin"))
                    = Cardinality(GitSources)
             /\ \A i \in GitSources :
                    Count(findings,
                          PinFinding("git-commit-insecure-pin", sources[i]))
                        = Count(sources, sources[i])

\* C8 witness: a list is returned for a recipe with a pinned and an unpinned
\* git source
C8_Witness ==
    /\ outcome = "ok"
    /\ \E i, j \in GitSources :
        /\ is_commit_securely_pinned(sources[i])
        /\ ~is_commit_securely_pinned(sources[j])

\* the name is_signature_file is about: the declared filename, else the URL
NameOf(u) == IF u.filename # NoneVal THEN u.filename[1] ELSE u.url

HasSignatureName(u) ==
    EndsWith(NameOf(u), ".sig") \/ EndsWith(NameOf(u), ".asc")
        \/ EndsWith(NameOf(u), ".sign")

\* C10: no UrlArtifactInsecurePin is about a Url source whose filename ends
\* in .sig, .asc or .sign.
C10_SignatureFilesExempt ==
    \A i \in Named("url-artifact-insecure-pin") :
        ~HasSignatureName(findings[i].source)

\* C10 witness: a list is returned for a recipe with a signature file that
\* has no checksum and one that has a checksum
C10_Witness ==
    /\ outcome = "ok"
    /\ \E i, j \in 1..Len(sources) :
        /\ sources[i].kind = "Url" /\ HasSignatureName(sources[i])
        /\ sources[i].checksums = <<>>
        /\ sources[i].filename = NoneVal
        /\ sources[j].kind = "Url" /\ HasSignatureName(sources[j])
        /\ sources[j].checksums # <<>>
        /\ sources[j].filename # NoneVal

\* the checksum variants of the algorithms sha256, sha512, sha224, sha384 and
\* blake2
SecureVariants == {"Sha256", "Sha512", "Sha224", "Sha384", "B2"}

\* the Url sources of the recipe that are not signature files, by index
Artifacts ==
    {i \in 1..Len(sources) :
        sources[i].kind = "Url" /\ ~HasSignatureName(sources[i])}

\* a checksum of one of the secure algorithms is attached to the source
HasSecureSum(u) ==
    \E k \in 1..Len(u.checksums) : u.checksums[k].variant \in SecureVariants

\* C11: when a list is returned, a Url source that is not a signature file
\* has one UrlArtifactInsecurePin exactly when none of its checksums is of a
\* secure algorithm (sha256, sha512, sha224, sha384, blake2), and none
\* otherwise; equal sources are counted with their multiplicity.
C11_UrlFlaggedIffNoSecureSum ==
    outcome = "ok" =>
        \A i \in Artifacts :
            Count(findings, PinFinding("url-artifact-insecure-pin", sources[i]))
                = IF HasSecureSum(sources[i]) THEN 0
                  ELSE Count(sources, sources[i])

\* C11 witness: a list is returned for a recipe with an artifact that has
\* only an md5 or sha1 checksum and an artifact that has no checksum
C11_Witness ==
    /\ outcome = "ok"
    /\ \E i, j \in Artifacts :
        /\ sources[i].checksums # <<>>
        /\ \A k \in 1..Len(sources[i].checksums) :
               sources[i].checksums[k].variant \in {"Md5", "Sha1"}
        /\ sources[j].checksums = <<>>

\* the source= line at index i as list_sources returns it
Declared(i) == SourceOfLine(recipe.source[i])

\* the declared sources equal to the one at index i
Copies(i) ==
    Cardinality({j \in 1..NumSources : Declared(j) = Declared(i)})

\* the map over the sources has run
Classified == ppc \in {"sums", "policy"} \/ outcome = "ok"

\* the scheme starts with git, svn, hg or bzr
VcsPrefixed(scheme) ==
    \E p \in {"git", "svn", "hg", "bzr"} : StartsWith(scheme, p)

\* C13: once the sources are classified there is one classified source per
\* declared source, at its index; https, http and ftp give Url and no scheme
\* finding; no "://" gives File and no finding about the source; any other
\* scheme that starts with none of git, svn, hg, bzr gives Url and one
\* UnknownScheme.
C13_ClassificationTotal ==
    Classified =>
        /\ Len(sources) = NumSources
        /\ \A i \in 1..NumSources :
            LET src == Declared(i)
                scheme == Scheme(src)
                about == {k \in 1..Len(findings) :
                             findings[k].name \in
                                 {"insecure-scheme", "unknown-scheme"}
                             /\ findings[k].source = src}
            IN  /\ sources[i].kind \in
                      {"File", "Url", "Git", "Svn", "Hg", "Bzr"}
                /\ scheme = NoneVal =>
                      /\ sources[i] = [kind |-> "File", name |-> src.url]
                      /\ \A k \in 1..Len(findings) :
                             "source" \in DOMAIN findings[k] =>
                                 findings[k].source \notin {src, sources[i]}
                /\ (scheme # NoneVal /\ ~VcsPrefixed(scheme[1])) =>
                      /\ sources[i].kind = "Url"
                      /\ sources[i].url = src.url
                      /\ sources[i].filename = src.filename
                      /\ IF scheme[1] \in {"https", "http", "ftp"}
                         THEN about = {}
                         ELSE /\ Cardinality(about) = Copies(i)
                              /\ \A k \in about :
                                     findings[k] = UnknownScheme(scheme[1], src)
                /\ (scheme # NoneVal /\ VcsPrefixed(scheme[1])) =>
                      /\ sources[i].kind \in {"Git", "Svn", "Hg", "Bzr"}
                      /\ StartsWith(src.url, sources[i].url)

\* C13 witness: a list is returned for a recipe whose first source has a
\* scheme of no family (scp) and whose second source is a local file
C13_Witness ==
    /\ outcome = "ok"
    /\ NumSources = 2
    /\ Scheme(Declared(1)) = Some("scp")
    /\ sources[1].kind = "Url"
    /\ Scheme(Declared(2)) = NoneVal
    /\ sources[2].kind = "File"

\* the sources classified as a variant, by index
OfKind(kind) == {i \in 1..Len(sources) : sources[i].kind = kind}

\* C14: when a list is returned it holds one SvnInsecurePin for every Svn
\* source and one BzrInsecurePin for every Bzr source, and no other finding
\* of these names; equal sources are counted with their multiplicity.
C14_SvnBzrAlwaysFlagged ==
    outcome = "ok" =>
        /\ Cardinality(Named("svn-insecure-pin")) = Cardinality(OfKind("Svn"))
        /\ Cardinality(Named("bzr-insecure-pin")) = Cardinality(OfKind("Bzr"))
        /\ \A i \in OfKind("Svn") :
               Count(findings, PinFinding("svn-insecure-pin", sources[i]))
                   = Count(sources, sources[i])
        /\ \A i \in OfKind("Bzr") :
               Count(findings, PinFinding("bzr-insecure-pin", sources[i]))
                   = Count(sources, sources[i])

\* C14 witness: a list is returned for a recipe with an svn+https source and
\* a bzr+https source, each with a revision
C14_Witness ==
    /\ outcome = "ok"
    /\ \E i \in OfKind("Svn") :
        /\ sources[i].revision # NoneVal
        /\ Scheme(Declared(i)) = Some("svn+https")
    /\ \E i \in OfKind("Bzr") :
        /\ sources[i].revision # NoneVal
        /\ Scheme(Declared(i)) = Some("bzr+https")

\* a string of exactly 40 characters, all in [0-9a-f]
LowerHex40(s) ==
    /\ Len(s) = 40
    /\ \A i \in 1..Len(s) :
           Occurrences("0123456789abcdef", SubSeq(s, i, i)) # {}

\* C15: when a list is returned, an Hg source has an HgRevisionInsecurePin
\* exactly when its revision is absent or is not a string of 40 characters in
\* [0-9a-f]; equal sources are counted with their multiplicity.
C15_HgFlaggedIffNotHash ==
    outcome = "ok" =>
        \A i \in OfKind("Hg") :
            Count(findings, PinFinding("hg-revision-insecure-pin", sources[i]))
                = IF /\ sources[i].revision # NoneVal
                     /\ LowerHex40(sources[i].revision[1])
                  THEN 0
                  ELSE Count(sources, sources[i])

\* C15 witness: a list is returned for a recipe with an Hg source pinned by a
\* lowercase hash and an Hg source whose revision is that hash in uppercase
C15_Witness ==
    /\ outcome = "ok"
    /\ \E i, j \in OfKind("Hg") :
        /\ sources[i].revision = Some(Hash)
        /\ sources[j].revision =
              Some("0123456789ABCDEF0123456789ABCDEF01234567")
        /\ Named("hg-revision-insecure-pin") # {}

\* the checksum arrays list_variable returned, empty for those not read
ArraysSeen ==
    [k \in 1..Len(SUPPORTED_ALGS) |->
        IF k <= Len(sumsSeen) THEN sumsSeen[k] ELSE <<>>]

\* the list check_pkg(target, false) returns for the recipe when every
\* collaborator succeeds and the checksum pass does not panic
FindingsWithoutSigs ==
    LET r == AlgLoop(ClassifyAll(recipe.source),
                     SchemeFindings(recipe.source, 1), ArraysSeen, 1)
    IN  r.findings
            \o PinFindings(r.sources, 1, has_any_secure_git_sources(r.sources))

\* C17 as claimed: a scan in discover-signatures mode ends as the scan of the
\* same recipe without it: with an error both modes share (checkout, missing
\* PKGBUILD, list_variable), or with the same finding list.
C17_DiscoverSigsAdvisory ==
    (ppc = "done" /\ recipe.discover_sigs) =>
        \/ outcome \in {"err: checkout", "err: Missing PKGBUILD",
                         "err: list_variable"}
        \/ outcome = "ok" /\ findings = FindingsWithoutSigs

\* the checksum variants in the order the algorithms are read: sha256, sha512,
\* sha224, sha384, blake2, md5, sha1
VariantOrder == <<"Sha256", "Sha512", "Sha224", "Sha384", "B2", "Md5", "Sha1">>

\* the values declared at index i, one per algorithm that has a value other
\* than SKIP there, in the order of the algorithms
DeclaredAt(i) ==
    LET at == [k \in 1..Len(sumsSeen) |->
                  [variant |-> VariantOrder[k],
                   value |-> IF i <= Len(sumsSeen[k]) THEN sumsSeen[k][i]
                             ELSE "SKIP"]]
    IN  SelectSeq(at, LAMBDA cm : cm.value # "SKIP")

\* the checksum pass has run to its end
Aggregated == ppc = "policy" \/ outcome = "ok"

\* C19: the checksum pass leaves the Url source at index i with the values
\* declared at index i that are not SKIP as its checksums, in the order of
\* the algorithms, and otherwise as it was; it leaves a source of any other
\* variant as it was.
C19_OnlyUrlSourcesAggregate ==
    [][(ppc = "sums" /\ ppc' = "policy") =>
        /\ Len(sumsSeen') = Len(SUPPORTED_ALGS)
        /\ Len(sources') = Len(sources)
        /\ \A i \in 1..Len(sources) :
               IF sources[i].kind = "Url"
               THEN sources'[i] =
                        [sources[i] EXCEPT !.checksums = DeclaredAt(i)']
               ELSE sources'[i] = sources[i]]_vars

\* C19 witness: the pass ended for a recipe whose first source is an Svn
\* source with values of two algorithms declared at its index, and whose
\* second source is a Url source
C19_Witness ==
    /\ Aggregated
    /\ NumSources = 2
    /\ sources[1].kind = "Svn"
    /\ Cardinality({k \in Algs : sumsSeen[k] # <<>>
                                  /\ sumsSeen[k][1] # "SKIP"}) = 2
    /\ sources[2].kind = "Url"

\* C20: a scan of a working directory without PKGBUILD never gets past the
\* check for it: no variable is extracted (no source is classified, no
\* checksum array read), no list is returned, and once the directory is
\* resolved the scan ends with the Missing PKGBUILD error.
C20_MissingPkgbuildFirst ==
    (ppc # "idle" /\ ~recipe.pkgbuild) =>
        /\ ppc \in {"start", "pkgbuild", "done"}
        /\ sources = <<>>
        /\ findings = <<>>
        /\ sumsSeen = <<>>
        /\ outcome \in {"none", "err: checkout", "err: Missing PKGBUILD"}
        /\ ppc = "done" => outcome # "none"
        /\ ppc \in {"start", "pkgbuild"} => outcome = "none"

\* C20 witness: the scan of a recipe that declares sources ended with the
\* Missing PKGBUILD error
C20_Witness ==
    /\ ppc = "done"
    /\ ~recipe.pkgbuild
    /\ recipe.source # <<>>
    /\ recipe.arrays > 0
    /\ outcome = "err: Missing PKGBUILD"

(***************************************************************************)
(* One source line through the classifier                                  *)
(***************************************************************************)
\* values of a #commit=, #tag= or #revision= fragment: a lowercase hash, an
\* uppercase one, one a character short, one a character long, a name
RefValues ==
    {Hash,
     "0123456789ABCDEF0123456789ABCDEF01234567",
     SubSeq(Hash, 1, HashLen - 1),
     Hash \o "8",
     "main"}

GitFragments ==
    {""}
    \cup {"#commit=" \o v : v \in RefValues}
    \cup {"#tag=" \o v : v \in RefValues}
    \cup {"#tag=" \o v \o "#commit=" \o w : v \in RefValues, w \in RefValues}
    \cup {"#commit=" \o v \o "#tag=" \o w : v \in {Hash, "main"}, w \in {Hash, "main"}}

GitLines ==
    {scheme \o "://a/r" \o s1 \o f \o s2 :
        scheme \in {"git+https", "git"},
        s1 \in {"", "?signed"},
        f \in GitFragments,
        s2 \in {"", "?signed"}}

\* schemes of every family (insecure, secure, unknown) and of none
Schemes ==
    {"git", "git+http", "git+git", "git+https", "git+ssh", "github",
     "svn", "svn+http", "svn+https", "svn+ssh",
     "hg", "hg+http", "hg+https", "hg+ssh",
     "bzr", "bzr+http", "bzr+https", "bzr+ssh",
     "https", "http", "ftp", "scp", "file", "HTTPS", "sftp", ""}

\* a line for every scheme, with and without a declared filename and a
\* revision
SchemeLines ==
    {f \o scheme \o "://a/r" \o r :
        f \in {"", "a.tar.gz::"},
        scheme \in Schemes,
        r \in {"", "#revision=7"}}

SrcInputs == PinLines \cup GitLines \cup SchemeLines

InitSrc ==
    /\ srcInput \in SrcInputs
    /\ srcParsed = NoneVal

ClassifyLine ==
    /\ srcParsed = NoneVal
    /\ srcParsed' = Some(Classify(SourceOfLine(srcInput)))
    /\ UNCHANGED <<srcInput, runVars, pkgVars, auditVars>>

NextSrc == ClassifyLine

(***************************************************************************)
(* Properties of the classifier                                            *)
(***************************************************************************)
\* C9 as claimed: a parsed git source is securely pinned exactly when its
\* commit is set and is a hash, or its tag is set and is a hash.
C9_PinnedIffCommitOrTagHash ==
    (srcParsed # NoneVal /\ srcParsed[1].authed.kind = "Git") =>
        LET g == srcParsed[1].authed
        IN  is_commit_securely_pinned(g) <=>
                \/ g.commit # NoneVal /\ is_git_object_hash(g.commit[1])
                \/ g.tag # NoneVal /\ is_git_object_hash(g.tag[1])

\* the scheme of the line: what precedes the first "://" of its URL
LineScheme == Scheme(SourceOfLine(srcInput))

\* the version-control families: the prefix of their schemes, the variant they
\* are classified as, their insecure schemes
Families ==
    {[prefix |-> "git", kind |-> "Git",
      insecure |-> {"git", "git+http", "git+git"}],
     [prefix |-> "svn", kind |-> "Svn", insecure |-> {"svn", "svn+http"}],
     [prefix |-> "hg", kind |-> "Hg", insecure |-> {"hg+http"}],
     [prefix |-> "bzr", kind |-> "Bzr", insecure |-> {"bzr+http"}]}

\* C12: a source whose scheme starts with the prefix of a family is classified
\* as the variant of the family and has InsecureScheme when the scheme is one
\* of the family's insecure schemes, no scheme finding when it is the prefix
\* followed by +https, and UnknownScheme otherwise; never more than one.
C12_FamilySchemeRule ==
    (srcParsed # NoneVal /\ LineScheme # NoneVal) =>
        \A F \in Families :
            StartsWith(LineScheme[1], F.prefix) =>
                /\ srcParsed[1].authed.kind = F.kind
                /\ srcParsed[1].findings =
                      IF LineScheme[1] \in F.insecure
                      THEN <<InsecureScheme(LineScheme[1],
                                            SourceOfLine(srcInput))>>
                      ELSE IF LineScheme[1] = F.prefix \o "+https"
                      THEN <<>>
                      ELSE <<UnknownScheme(LineScheme[1],
                                           SourceOfLine(srcInput))>>

\* C12 witness: a source with the bare scheme hg, which is in no insecure set
\* and is not hg+https, was classified
C12_Witness ==
    /\ srcParsed # NoneVal
    /\ LineScheme = Some("hg")
    /\ srcParsed[1].authed.kind = "Hg"
    /\ Len(srcParsed[1].findings) = 1
    /\ srcParsed[1].findings[1].name = "unknown-scheme"

(***************************************************************************)
(* One scan result through the aggregator                                  *)
(***************************************************************************)
\* Finding::VARIANTS: the names strum gives the variants (kebab_case)
VARIANTS ==
    {"insecure-scheme", "unknown-scheme", "wrong-number-of-checksums",
     "git-commit-insecure-pin", "svn-insecure-pin",
     "hg-revision-insecure-pin", "bzr-insecure-pin",
     "url-artifact-insecure-pin", "security-advisory"}

\* mutant: a finding passes only a filter set that names it
FilterPasses_ContainsOnly(key, filters) == key \in filters

\* filters.is_empty() || filters.contains(key)
FilterPasses(key, filters) == filters = {} \/ key \in filters

RECURSIVE AuditLoop(_, _, _, _)
\* the loop of audit_list from the i-th finding on: has_findings and the
\* findings logged with warn!
AuditLoop(fs, filters, i, acc) ==
    IF i > Len(fs) THEN acc
    ELSE IF FilterPasses(fs[i].name, filters)
    THEN AuditLoop(fs, filters, i + 1,
                   [has_findings |-> TRUE, warned |-> Append(acc.warned, fs[i])])
    ELSE AuditLoop(fs, filters, i + 1, acc)

\* Finding::audit_list
audit_list(fs, filters) ==
    AuditLoop(fs, filters, 1, [has_findings |-> FALSE, warned |-> <<>>])

\* a scan result (Ok with a finding list, or Err), the --filter names and
\* the --report flag
AuditInputs ==
    [scan : {"ok", "err"},
     findings : UNION {[1..n -> {[name |-> v] : v \in VARIANTS}] :
                          n \in 0..MaxAudit},
     filters : {F \in SUBSET VARIANTS : Cardinality(F) <= MaxFilters},
     report : BOOLEAN]

InitAudit ==
    /\ auditInput \in {a \in AuditInputs :
                          a.scan = "err" => a.findings = <<>>}
    /\ auditOut = NoneVal

\* the Ok arm of the match in Scan::run: audit_list, then println in report
\* mode
AuditOk ==
    /\ auditOut = NoneVal
    /\ auditInput.scan = "ok"
    /\ \E r \in {audit_list(auditInput.findings, auditInput.filters)} :
        auditOut' = Some([has_findings |-> Some(r.has_findings),
                          warned |-> r.warned,
                          printed |-> auditInput.report /\ r.has_findings])
    /\ UNCHANGED <<auditInput, runVars, pkgVars, srcVars>>

\* the Err arm: the error is logged, audit_list is not called
AuditErr ==
    /\ auditOut = NoneVal
    /\ auditInput.scan = "err"
    /\ auditOut' = Some([has_findings |-> NoneVal, warned |-> <<>>,
                         printed |-> FALSE])
    /\ UNCHANGED <<auditInput, runVars, pkgVars, srcVars>>

NextAudit ==
    \/ AuditOk
    \/ AuditErr

(***************************************************************************)
(* Properties of the aggregator                                            *)
(***************************************************************************)
\* the findings of the list that pass the filter: every one if no filter is
\* given, else those whose name is in the filter set
Passing ==
    {i \in 1..Len(auditInput.findings) :
        auditInput.filters = {}
        \/ auditInput.findings[i].name \in auditInput.filters}

\* C16: audit_list returns true exactly when a finding of the list passes the
\* filter, so false for the empty list; in report mode the target is printed
\* exactly when it returned true.
C16_AuditListIffPassing ==
    (auditOut # NoneVal /\ auditInput.scan = "ok") =>
        /\ auditOut[1].has_findings = Some(Passing # {})
        /\ auditInput.findings = <<>> => auditOut[1].has_findings = Some(FALSE)
        /\ auditInput.report =>
              (auditOut[1].printed <=> auditOut[1].has_findings = Some(TRUE))

\* C16 witness: in report mode, without filter, a list with a finding was
\* audited and the target printed
C16_Witness ==
    /\ auditOut # NoneVal
    /\ auditInput.scan = "ok"
    /\ auditInput.report
    /\ auditInput.filters = {}
    /\ auditInput.findings # <<>>
    /\ auditOut[1].printed

(***************************************************************************)
(* Specifications                                                          *)
(***************************************************************************)
\* the variables of the parts a specification leaves idle
IdleRun ==
    /\ check = [scan_directory |-> 0, arch_build_system |-> 0, paths |-> 0,
                concurrency |-> NoneVal, num_cpus |-> 1]
    /\ dirs = <<>>
    /\ nextId = 1
    /\ queue = <<>>
    /\ pool = {}
    /\ pc = "idle"
    /\ result = "running"
    /\ spawned = <<>>
    /\ reported = EmptyBag
    /\ joinError = NoneVal

IdlePkg ==
    /\ recipe = [pkgbuild |-> FALSE, discover_sigs |-> FALSE, source |-> <<>>,
                 arrays |-> 0]
    /\ ppc = "idle"
    /\ sources = <<>>
    /\ findings = <<>>
    /\ sumsSeen = <<>>
    /\ outcome = "none"

IdleSrc ==
    /\ srcInput = ""
    /\ srcParsed = Some("idle")

IdleAudit ==
    /\ auditInput = [scan |-> "err", findings |-> <<>>, filters |-> {},
                     report |-> FALSE]
    /\ auditOut = Some("idle")

Init == InitRun /\ IdlePkg /\ IdleSrc /\ IdleAudit

Next == NextRun

Spec == Init /\ [][Next]_vars

InitPkgOnly == IdleRun /\ InitPkg /\ IdleSrc /\ IdleAudit

SpecPkg == InitPkgOnly /\ [][NextPkg]_vars

InitPinsOnly == IdleRun /\ InitPins /\ IdleSrc /\ IdleAudit

SpecPins == InitPinsOnly /\ [][NextPins]_vars

InitSrcOnly == IdleRun /\ IdlePkg /\ InitSrc /\ IdleAudit

SpecSrc == InitSrcOnly /\ [][NextSrc]_vars

InitVariantsOnly == IdleRun /\ InitVariants /\ IdleSrc /\ IdleAudit

SpecVariants == InitVariantsOnly /\ [][NextPkg]_vars

InitAuditOnly == IdleRun /\ IdlePkg /\ IdleSrc /\ InitAudit

SpecAudit == InitAuditOnly /\ [][NextAudit]_vars

====
